---- MODULE Spec2Model ----
(***************************************************************************)
(* Conversation orchestration and staged-reveal engine of                  *)
(* src/components/MKTAI.tsx (components MKTAI and AgentResponseView).      *)
(*                                                                         *)
(* Representation.  A JavaScript string is the sequence of its tokens; a   *)
(* token is one character where the code looks at characters (the plan     *)
(* text, the typed input) and one fixed piece of text elsewhere.  The      *)
(* empty string is <<>>, `+` is \o.  A JSON / JavaScript value is a record *)
(* [kind, text]: kind is the JavaScript type, text the string content, the *)
(* array items or the object's entries.  An object literal (a payload) is  *)
(* a function from the names of the keys it has to their values.           *)
(***************************************************************************)
EXTENDS Integers, Sequences, FiniteSets, TLC

\* ---------------------------------------------------------------- bounds
MaxTurns == 2      \* accepted submissions in one session
MaxReads == 1      \* image selections in one session
MaxJitter == 1     \* single-millisecond clock steps in one session

\* ------------------------------------------------- JavaScript values
JUndefined == [kind |-> "undefined", text |-> <<>>]
JNull == [kind |-> "null", text |-> <<>>]
JString(s) == [kind |-> "string", text |-> s]
JNumber(s) == [kind |-> "number", text |-> s]
JArray(s) == [kind |-> "array", text |-> s]
JObject(s) == [kind |-> "object", text |-> s]

\* JavaScript truthiness (`x ? ..`, `x || ..`, `if (x)`).
Truthy(v) ==
  CASE v.kind = "undefined" -> FALSE
    [] v.kind = "null" -> FALSE
    [] v.kind = "string" -> v.text # <<>>
    [] v.kind = "number" -> v.text # <<"0">>
    [] OTHER -> TRUE

\* obj.key : the value of the key, undefined when the object lacks it.
Get(obj, key) == IF key \in DOMAIN obj THEN obj[key] ELSE JUndefined

\* b alone: the keys of a that b lacks are lost.
SpreadReplacing(a, b) == b

\* { ...a, ...b } : every key of either, b's value where b has the key.
Spread(a, b) ==
  [k \in (DOMAIN a) \cup (DOMAIN b) |-> IF k \in DOMAIN b THEN b[k] ELSE a[k]]

EmptyObject == [k \in {} |-> JUndefined]

Min(a, b) == IF a < b THEN a ELSE b
Max(a, b) == IF a > b THEN a ELSE b

\* ------------------------------------------------------ program constants
DEFAULT_PROFILE == JObject(<<>>)
ViewRevealMs == 1500
AnalyzePrompt == <<"Analyze this label">>
StarterPrompt == <<"Is Ashwagandha safe for hypothyroidism?">>

\* ------------------------------------------------------- String.split
\* s starts with the separator sep at position i.
MatchAt(s, sep, i) ==
  /\ i + Len(sep) - 1 <= Len(s)
  /\ \A j \in 1..Len(sep) : s[i + j - 1] = sep[j]

RECURSIVE SplitFrom(_, _, _, _)
\* The pieces of s from position i on, cur being the piece under way.
SplitFrom(s, sep, i, cur) ==
  IF i > Len(s) THEN <<cur>>
  ELSE IF MatchAt(s, sep, i) THEN <<cur>> \o SplitFrom(s, sep, i + Len(sep), <<>>)
  ELSE SplitFrom(s, sep, i + 1, Append(cur, s[i]))

\* s.split(sep) for a non-empty separator: n occurrences give n + 1 pieces.
Split(s, sep) == SplitFrom(s, sep, 1, <<>>)

PlanSeparator == <<".", " ">>

\* ------------------------------------------------------ reveal delay
\* data.plan.split throws a TypeError when plan is truthy and not a string.
PlanThrows(data) ==
  /\ Truthy(Get(data, "plan"))
  /\ Get(data, "plan").kind # "string"

\* The step count without its cap of 5.
planStepCountUncapped(data) ==
  IF Truthy(Get(data, "plan"))
  THEN Len(Split(Get(data, "plan").text, PlanSeparator))
  ELSE 3

planStepCount(data) ==
  IF Truthy(Get(data, "plan"))
  THEN Min(Len(Split(Get(data, "plan").text, PlanSeparator)), 5)
  ELSE 3

animationTime(data) == Min(Max(planStepCount(data) * 1000, 3000), 8000)

\* ------------------------------------------------- AgentResponseView
planSteps(data) ==
  IF Truthy(Get(data, "plan"))
  THEN LET pieces == Split(Get(data, "plan").text, PlanSeparator)
           long == SelectSeq(pieces, LAMBDA step : Len(step) > 5)
       IN SubSeq(long, 1, Min(Len(long), 5))
  ELSE <<>>

suggestions(data) ==
  IF Truthy(Get(data, "suggested_next_steps"))
     /\ Len(Get(data, "suggested_next_steps").text) > 0
  THEN Get(data, "suggested_next_steps").text
  ELSE IF Truthy(Get(data, "next_suggestion"))
       THEN Get(data, "next_suggestion").text
       ELSE <<>>

\* ------------------------------------------------------ getValidProduct
\* A value of product_json: its kind, its fields when it is an object, its
\* elements when it is an array.
ProductValue(kind, fields, items) == [kind |-> kind, fields |-> fields, items |-> items]
ProductNull == ProductValue("null", EmptyObject, <<>>)
ProductUndefined == ProductValue("undefined", EmptyObject, <<>>)
ProductObject(fields) == ProductValue("object", fields, <<>>)
ProductArray(items) == ProductValue("array", EmptyObject, items)

\* typeof v
TypeOf(v) ==
  CASE v.kind = "undefined" -> "undefined"
    [] v.kind = "string" -> "string"
    [] v.kind = "number" -> "number"
    [] OTHER -> "object"      \* objects, arrays and null

\* The predicate handed to find.
IsValidItem(item) ==
  /\ TypeOf(item) = "object"
  /\ item.kind # "null"
  /\ item.kind # "array"
  /\ \/ TypeOf(Get(item.fields, "NutritionFacts")) = "object"
     \/ TypeOf(Get(item.fields, "IngredientList")) = "object"

getValidProduct(input) ==
  IF input.kind \in {"undefined", "null"} THEN ProductNull
  ELSE IF input.kind # "array" THEN input
  ELSE IF \E i \in 1..Len(input.items) : IsValidItem(input.items[i])
       THEN input.items[CHOOSE i \in 1..Len(input.items) :
                          /\ IsValidItem(input.items[i])
                          /\ \A j \in 1..(i - 1) : ~IsValidItem(input.items[j])]
       ELSE ProductNull

\* ------------------------------------------------------------- state
VARIABLES
  mounted,            \* the MKTAI component is mounted (its state exists)
  messages,           \* useState<Message[]>: the log
  inputValue,         \* useState<string>: the text box
  isProcessing,       \* useState<boolean>: the in-flight lock
  currentProcessLog,  \* useState<string>: the processing indicator's text
  userProfile,        \* useState<UserProfile>
  showResults,        \* per message index: AgentResponseView's showResults
  timers,             \* pending setTimeout callbacks, in creation order
  calls,              \* one frame per sendPromptToBackend invocation
  reads,              \* FileReader reads under way, with their closures
  now,                \* the clock (Date.now() and the timer clock), ms
  jitter,             \* single-millisecond clock steps taken so far
  nreads,             \* image selections made so far
  probe               \* input and result of a function applied on its own

vars == <<mounted, messages, inputValue, isProcessing, currentProcessLog,
          userProfile, showResults, timers, calls, reads, now, jitter, nreads,
          probe>>

\* ------------------------------------------------------------ inputs
\* What the user can type into the text box: a blank, a question.
Inputs == {<<" ">>, <<"q">>}
\* Base64 previews of the selectable images.
Images == {<<"img1">>}
\* Plan texts, one token per character: "a. b" and ". . . . . ".
PlanTwoSteps == <<"a", ".", " ", "b">>
PlanSixSteps == <<".", " ", ".", " ", ".", " ", ".", " ", ".", " ">>
ProfileNuts == JObject(<<"nuts">>)
\* Decoded bodies of 2xx responses: a full answer, an answer with neither
\* verdict nor plan nor profile, an answer whose plan is not a string.
Responses ==
  { [final_verdict |-> JString(<<"AVOID">>), plan |-> JString(PlanSixSteps),
     suggested_next_steps |-> JArray(<<"s1">>), user_profile |-> ProfileNuts,
     image_data |-> JNull],
    [reasoning |-> JString(<<"r">>)],
    [final_verdict |-> JString(<<"SAFE">>), plan |-> JNumber(<<"7">>)] }
\* The ways a call fails: fetch rejects, or the status is not 2xx and the
\* response carries a JSON error body.
Failures ==
  { [kind |-> "rejected", status |-> <<>>, text |-> <<"Failed to fetch">>],
    [kind |-> "status", status |-> <<"500">>, text |-> <<"{\"detail\":\"boom\"}">>] }

\* --------------------------------------------------------- the log
\* String.trim() is empty: only white space.
TrimIsEmpty(s) == \A i \in 1..Len(s) : s[i] = " "

UserMessage(id, prompt, t) ==
  [id |-> id, type |-> "user", content |-> prompt, hasAgentResponse |-> FALSE,
   agentResponse |-> EmptyObject, timestamp |-> t, isStreaming |-> "undefined"]

AgentMessage(id, prompt, imageData, t) ==
  [id |-> id, type |-> "agent", content |-> <<>>, hasAgentResponse |-> TRUE,
   agentResponse |-> [user_query |-> JString(prompt), image_data |-> imageData],
   timestamp |-> t, isStreaming |-> "true"]

\* The second append written without the updater: it overwrites the first.
AppendPairOverwriting(prev, userMsg, agentMsg) == prev \o <<agentMsg>>

\* setMessages(prev => [...prev, user]); setMessages(prev => [...prev, agent])
AppendPair(prev, userMsg, agentMsg) == (prev \o <<userMsg>>) \o <<agentMsg>>

\* The merge without the test of the id: every turn is written.
updateAgentMsgEvery(prev, id, updates) ==
  [i \in 1..Len(prev) |->
     [prev[i] EXCEPT !.agentResponse = Spread(prev[i].agentResponse, updates),
                     !.hasAgentResponse = TRUE,
                     !.isStreaming = "false"]]

\* setMessages(prev => prev.map(m => m.id === id ? {...merged...} : m))
updateAgentMsg(prev, id, updates) ==
  [i \in 1..Len(prev) |->
     IF prev[i].id = id
     THEN [prev[i] EXCEPT !.agentResponse = Spread(prev[i].agentResponse, updates),
                          !.hasAgentResponse = TRUE,
                          !.isStreaming = "false"]
     ELSE prev[i]]

\* The whole log, not sliced.
RecentMessagesAll(msgs) == msgs

\* messages.slice(-6)
RecentMessages(msgs) == SubSeq(msgs, Max(1, Len(msgs) - 5), Len(msgs))

MemoryLine(m) ==
  IF m.type = "user" THEN (<<"User: ">> \o m.content) \o <<"\n">>
  ELSE IF m.hasAgentResponse
       THEN (<<"AI Verdict: ">>
             \o (IF Truthy(Get(m.agentResponse, "final_verdict"))
                 THEN Get(m.agentResponse, "final_verdict").text
                 ELSE <<"Unknown">>))
            \o <<"\n">>
       ELSE <<>>

RECURSIVE MemoryLines(_)
MemoryLines(ms) ==
  IF ms = <<>> THEN <<>> ELSE MemoryLine(Head(ms)) \o MemoryLines(Tail(ms))

memoryContext(msgs) ==
  IF Len(msgs) > 0
  THEN (<<"PREVIOUS CONVERSATION CONTEXT:\n">> \o MemoryLines(RecentMessages(msgs)))
       \o <<"\nCURRENT QUESTION:\n">>
  ELSE <<>>

finalPromptToSend(msgs, prompt) ==
  IF memoryContext(msgs) # <<>> THEN memoryContext(msgs) \o prompt ELSE prompt

\* ------------------------------------------------ render and effects
\* The message at index i is rendered through an AgentResponseView.
HasView(msgs, i) == msgs[i].type = "agent" /\ msgs[i].hasAgentResponse

\* Rendering the log throws: AgentResponseView calls data.plan.split.
RenderThrows(msgs) ==
  \E i \in 1..Len(msgs) : HasView(msgs, i) /\ PlanThrows(msgs[i].agentResponse)

\* The effect with the test of isProcessing inverted.
EffectArmsWhileProcessing(msgs, proc, i) ==
  proc /\ Truthy(Get(msgs[i].agentResponse, "final_verdict"))

\* The effect's body: the condition under which it starts its timer.
EffectArms(msgs, proc, i) ==
  ~proc /\ Truthy(Get(msgs[i].agentResponse, "final_verdict"))

\* The view at index i runs its effect in the commit that takes the state
\* to (msgs, proc): it has just mounted, or a dependency has changed.
EffectRuns(msgs, proc, i) ==
  \/ i > Len(messages)
  \/ ~HasView(messages, i)
  \/ isProcessing # proc
  \/ Get(messages[i].agentResponse, "final_verdict")
       # Get(msgs[i].agentResponse, "final_verdict")

RECURSIVE ViewTimers(_, _, _, _)
\* The timers started by the effects of the views from index i on.
ViewTimers(msgs, proc, i, t) ==
  IF i > Len(msgs) THEN <<>>
  ELSE (IF HasView(msgs, i) /\ EffectRuns(msgs, proc, i) /\ EffectArms(msgs, proc, i)
        THEN <<[kind |-> "view", idx |-> i, due |-> t + ViewRevealMs]>>
        ELSE <<>>)
       \o ViewTimers(msgs, proc, i + 1, t)

\* Cleanups (clearTimeout) of the effects that run again, then the effects.
RunEffects(tms, msgs, proc) ==
  SelectSeq(tms, LAMBDA t : ~(t.kind = "view" /\ EffectRuns(msgs, proc, t.idx)))
  \o ViewTimers(msgs, proc, 1, now)

\* Unmounting runs every view's cleanup; the dispatcher's timers stay.
ClearViewTimers(tms) == SelectSeq(tms, LAMBDA t : t.kind # "view")

\* The end of a handler: the state updates it made are applied together
\* (React batches the updates of one handler or continuation), the tree is
\* rendered and the effects run.  An error thrown while rendering unmounts
\* the tree (there is no error boundary); state updates on an unmounted
\* component are dropped.
Commit(msgs, proc, log, prof, inp, show, tms) ==
  IF mounted
  THEN /\ messages' = msgs
       /\ isProcessing' = proc
       /\ currentProcessLog' = log
       /\ userProfile' = prof
       /\ inputValue' = inp
       /\ showResults' = [i \in 1..Len(msgs) |->
                            IF i \in DOMAIN show THEN show[i] ELSE FALSE]
       /\ IF RenderThrows(msgs)
          THEN mounted' = FALSE /\ timers' = ClearViewTimers(tms)
          ELSE mounted' = TRUE /\ timers' = RunEffects(tms, msgs, proc)
  ELSE /\ UNCHANGED <<mounted, messages, isProcessing, currentProcessLog,
                      userProfile, inputValue, showResults>>
       /\ timers' = tms

\* -------------------------------------------------- sendPromptToBackend
\* The synchronous part, up to the await of fetch.  cMessages and cProfile
\* are the `messages` and `userProfile` of the closure the function was
\* created in.
sendPromptToBackend(prompt, imageData, file, cMessages, cProfile, inp) ==
  LET userMsgId == now
      agentMsgId == now + 1
      msgs == AppendPair(messages, UserMessage(userMsgId, prompt, now),
                         AgentMessage(agentMsgId, prompt, imageData, now))
      frame == [agentMsgId |-> agentMsgId,
                imageData |-> imageData,
                file |-> file,
                user_query |-> finalPromptToSend(cMessages, prompt),
                user_profile |-> cProfile,
                turn |-> IF mounted THEN Len(messages) + 2 ELSE 0,
                state |-> "pending",
                merges |-> 0,
                releases |-> 0,
                settledAt |-> 0,
                delay |-> 0]
  IN /\ Len(calls) < MaxTurns
     /\ calls' = Append(calls, frame)
     /\ Commit(msgs, TRUE, <<"Analyzing request...">>, userProfile, inp,
               showResults, timers)

\* err.message in the catch block.
errMessage(f) ==
  IF f.kind = "rejected" THEN f.text
  ELSE ((<<"Server Error ">> \o f.status) \o <<": ">>) \o f.text

\* The fallback written without clearing the subject.
FallbackPayloadKeepingSubject(message) ==
  [final_verdict |-> JString(<<"CAUTION">>),
   reasoning |-> JString((<<"Error connecting to AI Server: ">> \o message) \o <<".">>)]

FallbackPayload(message) ==
  [final_verdict |-> JString(<<"CAUTION">>),
   reasoning |-> JString((<<"Error connecting to AI Server: ">> \o message) \o <<".">>),
   product_json |-> JNull]

SplitTypeError == <<"data.plan.split is not a function">>

\* The catch block without the release of the lock.
CatchBlockLeaking(c, msgs, prof, message, mergesBefore) ==
  /\ calls' = [calls EXCEPT ![c].state = IF mergesBefore = 0 THEN "failed" ELSE "threw",
                            ![c].merges = mergesBefore + 1,
                            ![c].settledAt = now]
  /\ Commit(updateAgentMsg(msgs, calls[c].agentMsgId, FallbackPayload(message)),
            isProcessing, currentProcessLog, prof, inputValue, showResults, timers)

\* The catch block of the call with frame c.
CatchBlock(c, msgs, prof, message, mergesBefore) ==
  /\ calls' = [calls EXCEPT ![c].state = IF mergesBefore = 0 THEN "failed" ELSE "threw",
                            ![c].merges = mergesBefore + 1,
                            ![c].releases = @ + 1,
                            ![c].settledAt = now]
  /\ Commit(updateAgentMsg(msgs, calls[c].agentMsgId, FallbackPayload(message)),
            FALSE, <<>>, prof, inputValue, showResults, timers)

\* fetch resolved with a 2xx status and the body decoded to body.
FetchSuccess(c, body) ==
  /\ calls[c].state = "pending"
  /\ LET data == IF Truthy(calls[c].imageData)
                 THEN Spread(body, [image_data |-> calls[c].imageData])
                 ELSE body
         prof == IF Truthy(Get(data, "user_profile"))
                 THEN Get(data, "user_profile") ELSE userProfile
         msgs == updateAgentMsg(messages, calls[c].agentMsgId, data)
     IN IF PlanThrows(data)
        THEN CatchBlock(c, msgs, prof, SplitTypeError, 1)
        ELSE /\ calls' = [calls EXCEPT ![c].state = "ok",
                                       ![c].merges = 1,
                                       ![c].settledAt = now,
                                       ![c].delay = animationTime(data)]
             /\ Commit(msgs, isProcessing,
                       <<"Cross-referencing safety guidelines...">>, prof,
                       inputValue, showResults,
                       Append(timers, [kind |-> "reveal", idx |-> c,
                                       due |-> now + animationTime(data)]))
  /\ UNCHANGED <<reads, now, jitter, nreads, probe>>

\* The failure path also putting the profile back to its default.
FetchFailureResettingProfile(c, f) ==
  /\ calls[c].state = "pending"
  /\ CatchBlock(c, messages, DEFAULT_PROFILE, errMessage(f), 0)
  /\ UNCHANGED <<reads, now, jitter, nreads, probe>>

\* fetch rejected, or resolved with a status that is not 2xx.
FetchFailure(c, f) ==
  /\ calls[c].state = "pending"
  /\ CatchBlock(c, messages, userProfile, errMessage(f), 0)
  /\ UNCHANGED <<reads, now, jitter, nreads, probe>>

\* ------------------------------------------------------------ timers
\* The timer the event loop runs next: the earliest due, the earliest
\* created among those.
NextTimer ==
  CHOOSE k \in 1..Len(timers) :
    \A j \in 1..Len(timers) :
      \/ timers[k].due < timers[j].due
      \/ timers[k].due = timers[j].due /\ k <= j

RemoveAt(seq, k) == SubSeq(seq, 1, k - 1) \o SubSeq(seq, k + 1, Len(seq))

\* The dispatcher's timer also moving its turn to the Results phase.
RevealTimerFiresRevealing(k) ==
  /\ calls' = [calls EXCEPT ![timers[k].idx].releases = @ + 1]
  /\ Commit(messages, FALSE, <<>>, userProfile, inputValue,
            [i \in DOMAIN showResults |->
               showResults[i] \/ i = calls[timers[k].idx].turn],
            RemoveAt(timers, k))

\* The dispatcher's timer: setIsProcessing(false); setCurrentProcessLog('').
RevealTimerFires(k) ==
  /\ calls' = [calls EXCEPT ![timers[k].idx].releases = @ + 1]
  /\ Commit(messages, FALSE, <<>>, userProfile, inputValue, showResults,
            RemoveAt(timers, k))

\* The view's timer flipping showResults instead of setting it.
ViewTimerFiresToggling(k) ==
  /\ UNCHANGED calls
  /\ Commit(messages, isProcessing, currentProcessLog, userProfile, inputValue,
            [showResults EXCEPT ![timers[k].idx] = ~@], RemoveAt(timers, k))

\* The view's timer: setShowResults(true) (and the plan panel collapses).
ViewTimerFires(k) ==
  /\ UNCHANGED calls
  /\ Commit(messages, isProcessing, currentProcessLog, userProfile, inputValue,
            [showResults EXCEPT ![timers[k].idx] = TRUE], RemoveAt(timers, k))

TimerFire ==
  /\ timers # <<>>
  /\ timers[NextTimer].due <= now
  /\ IF timers[NextTimer].kind = "reveal"
     THEN RevealTimerFires(NextTimer)
     ELSE ViewTimerFires(NextTimer)
  /\ UNCHANGED <<reads, now, jitter, nreads, probe>>

\* One millisecond passes; no due timer is passed over.
TickMs ==
  /\ jitter < MaxJitter
  /\ timers # <<>> => now + 1 <= timers[NextTimer].due
  /\ now' = now + 1
  /\ jitter' = jitter + 1
  /\ UNCHANGED <<mounted, messages, inputValue, isProcessing, currentProcessLog,
                 userProfile, showResults, timers, calls, reads, nreads, probe>>

\* Time passes until the next timer is due.
TickToDue ==
  /\ timers # <<>>
  /\ timers[NextTimer].due > now
  /\ now' = timers[NextTimer].due
  /\ UNCHANGED <<mounted, messages, inputValue, isProcessing, currentProcessLog,
                 userProfile, showResults, timers, calls, reads, jitter, nreads, probe>>

\* ------------------------------------------------------- user events
\* onChange of the text box (disabled while isProcessing).
SetInputValue(v) ==
  /\ mounted
  /\ ~isProcessing
  /\ v # inputValue
  /\ Commit(messages, isProcessing, currentProcessLog, userProfile, v,
            showResults, timers)
  /\ UNCHANGED <<calls, reads, now, jitter, nreads, probe>>

handleSubmit ==
  /\ mounted
  /\ IF ~TrimIsEmpty(inputValue) /\ ~isProcessing
     THEN /\ sendPromptToBackend(inputValue, JNull, FALSE, messages, userProfile, <<>>)
          /\ UNCHANGED <<reads, now, jitter, nreads, probe>>
     ELSE UNCHANGED vars

\* The "Research Safety" button, rendered while the log is empty and idle.
StarterClick ==
  /\ mounted
  /\ Len(messages) = 0
  /\ ~isProcessing
  /\ sendPromptToBackend(StarterPrompt, JNull, FALSE, messages, userProfile, inputValue)
  /\ UNCHANGED <<reads, now, jitter, nreads, probe>>

\* A follow-up button of the revealed turn at index i.
FollowUpClick(i, n) ==
  /\ mounted
  /\ HasView(messages, i)
  /\ showResults[i]
  /\ n \in 1..Len(suggestions(messages[i].agentResponse))
  /\ IF ~isProcessing
     THEN /\ sendPromptToBackend(<<suggestions(messages[i].agentResponse)[n]>>,
                                 JNull, FALSE, messages, userProfile, inputValue)
          /\ UNCHANGED <<reads, now, jitter, nreads, probe>>
     ELSE UNCHANGED vars

\* An image is chosen in the picker (its buttons are disabled or absent
\* while isProcessing): the read starts, onloadend closes over this render.
handleFileSelect(img) ==
  /\ mounted
  /\ ~isProcessing
  /\ nreads < MaxReads
  /\ reads' = Append(reads, [image |-> img, messages |-> messages,
                             userProfile |-> userProfile])
  /\ nreads' = nreads + 1
  /\ UNCHANGED <<mounted, messages, inputValue, isProcessing, currentProcessLog,
                 userProfile, showResults, timers, calls, now, jitter, probe>>

\* reader.onloadend of the read at position k.
FileLoaded(k) ==
  /\ k \in 1..Len(reads)
  /\ sendPromptToBackend(AnalyzePrompt, JString(reads[k].image), TRUE,
                         reads[k].messages, reads[k].userProfile, inputValue)
  /\ reads' = RemoveAt(reads, k)
  /\ UNCHANGED <<now, jitter, nreads, probe>>

\* ------------------------------------------------------ specification
\* No function is being applied on its own.
NoProbe == [fn |-> "none", input |-> EmptyObject, applied |-> FALSE, result |-> 0]

InitState ==
  /\ mounted = TRUE
  /\ messages = <<>>
  /\ inputValue = <<>>
  /\ isProcessing = FALSE
  /\ currentProcessLog = <<>>
  /\ userProfile = DEFAULT_PROFILE
  /\ showResults = <<>>
  /\ timers = <<>>
  /\ calls = <<>>
  /\ reads = <<>>
  /\ now = 0
  /\ jitter = 0
  /\ nreads = 0

Init == InitState /\ probe = NoProbe

Settle ==
  \E c \in 1..Len(calls) :
    \/ \E body \in Responses : FetchSuccess(c, body)
    \/ \E f \in Failures : FetchFailure(c, f)

Next ==
  \/ \E v \in Inputs : SetInputValue(v)
  \/ handleSubmit
  \/ StarterClick
  \/ \E i \in 1..Len(messages) :
       \E n \in 1..Len(suggestions(messages[i].agentResponse)) : FollowUpClick(i, n)
  \/ \E img \in Images : handleFileSelect(img)
  \/ \E k \in 1..Len(reads) : FileLoaded(k)
  \/ Settle
  \/ TimerFire
  \/ TickMs
  \/ TickToDue

Spec == Init /\ [][Next]_vars

\* Calls complete or fail, due timers fire, time passes.
FairSpec == Spec /\ WF_vars(Settle) /\ WF_vars(TimerFire) /\ WF_vars(TickToDue)

\* The component is removed from the page: every view's effect cleanup runs
\* (clearTimeout of line 148); nothing clears the timer of line 443.
Unmount ==
  /\ mounted
  /\ mounted' = FALSE
  /\ timers' = ClearViewTimers(timers)
  /\ UNCHANGED <<messages, inputValue, isProcessing, currentProcessLog,
                 userProfile, showResults, calls, reads, now, jitter, nreads, probe>>

TeardownNext ==
  \/ Next
  \/ Unmount

\* A session in which the component may be removed at any moment.
TeardownSpec == Init /\ [][TeardownNext]_vars

\* ------------------------------------------- functions on their own
MaxPlanLen == 5    \* characters of an enumerated plan text

PlanChars == {"a", ".", " "}
PlanTexts == UNION {[1..n -> PlanChars] : n \in 0..MaxPlanLen}

RECURSIVE PlanOfSteps(_)
\* "a. a. ... a" : n steps.
PlanOfSteps(n) == IF n = 1 THEN <<"a">> ELSE <<"a", ".", " ">> \o PlanOfSteps(n - 1)
PlanTenSteps == PlanOfSteps(10)

\* Decoded bodies as far as the reveal delay reads them: no plan, a null
\* plan, a plan text.
PlanPayloads ==
  {EmptyObject, [plan |-> JNull]}
  \cup {[plan |-> JString(s)] : s \in PlanTexts \cup {PlanTwoSteps, PlanTenSteps}}

MaxLogPairs == 4   \* question and answer pairs of an enumerated log

\* What the turns of an enumerated log are made of: two questions; an agent
\* payload not merged yet, one with a verdict, one with an empty verdict.
LogContents == {<<"p">>, <<"q">>}
LogPayloads ==
  {[user_query |-> JString(<<"q">>), image_data |-> JNull],
   [user_query |-> JString(<<"q">>), image_data |-> JNull,
    final_verdict |-> JString(<<"AVOID">>)],
   [user_query |-> JString(<<"q">>), image_data |-> JNull,
    final_verdict |-> JString(<<>>)]}

\* The log after n submissions with the questions cs and the payloads ps,
\* the i-th made at time 2i - 1.
LogOf(n, cs, ps) ==
  [j \in 1..(2 * n) |->
     IF j % 2 = 1
     THEN UserMessage(j, cs[(j + 1) \div 2], j)
     ELSE [AgentMessage(j, cs[j \div 2], JNull, j - 1)
             EXCEPT !.agentResponse = ps[j \div 2],
                    !.isStreaming = IF "final_verdict" \in DOMAIN ps[j \div 2]
                                    THEN "false" ELSE "true"]]

Logs ==
  UNION {{LogOf(n, cs, ps) : cs \in [1..n -> LogContents], ps \in [1..n -> LogPayloads]}
           : n \in 0..MaxLogPairs}

MaxMergePairs == 2   \* pairs of a log that merges are applied to
MaxMerges == 2       \* merges applied one after the other

MergeLogs == {log \in Logs : Len(log) <= 2 * MaxMergePairs}
\* The ids of the turns of those logs, and 0, the id of none.
MergeIds == 0..(2 * MaxMergePairs)
\* Partial payloads: a verdict, a reasoning, the fallback of the catch block.
MergeUpdates ==
  {[final_verdict |-> JString(<<"SAFE">>)],
   [reasoning |-> JString(<<"r">>)],
   FallbackPayload(<<"Failed to fetch">>)}
MergeSequences == UNION {[1..n -> MergeUpdates] : n \in 1..MaxMerges}

MaxItems == 3   \* elements of an enumerated product_json array

\* Elements of a product_json array: objects with a nutrition mapping, with
\* an ingredient list, with neither, with a null or a string in place of
\* the mapping, with a null in place of the list; null; an array.
ProductItems ==
  {ProductObject([product_name |-> JString(<<"A">>), NutritionFacts |-> JObject(<<"Energy">>)]),
   ProductObject([product_name |-> JString(<<"B">>), IngredientList |-> JArray(<<"sugar">>)]),
   ProductObject([product_name |-> JString(<<"C">>)]),
   ProductObject([product_name |-> JString(<<"D">>), NutritionFacts |-> JNull]),
   ProductObject([product_name |-> JString(<<"E">>), NutritionFacts |-> JString(<<"n/a">>)]),
   ProductObject([product_name |-> JString(<<"F">>), IngredientList |-> JNull]),
   ProductNull,
   ProductArray(<<>>)}

ProductInputs ==
  {ProductUndefined, ProductNull}
  \cup {v \in ProductItems : v.kind = "object"}
  \cup {ProductArray(items) : items \in UNION {[1..n -> ProductItems] : n \in 0..MaxItems}}

RECURSIVE PlanOfLongSteps(_)
\* "aaaaaa. aaaaaa. ... aaaaaa" : n steps of six characters.
PlanOfLongSteps(n) ==
  IF n = 1 THEN <<"a", "a", "a", "a", "a", "a">>
  ELSE <<"a", "a", "a", "a", "a", "a", ".", " ">> \o PlanOfLongSteps(n - 1)

\* Decoded bodies as the dispatcher and the view both read them: those of
\* PlanPayloads and plans of one to six long steps.
StepPayloads ==
  PlanPayloads \cup {[plan |-> JString(PlanOfLongSteps(n))] : n \in 1..6}

PureInit ==
  /\ InitState
  /\ \/ probe \in {[fn |-> "animationTime", input |-> d, applied |-> FALSE, result |-> 0]
                     : d \in PlanPayloads}
     \/ probe \in {[fn |-> "finalPromptToSend",
                      input |-> [messages |-> log, prompt |-> q],
                      applied |-> FALSE, result |-> <<>>]
                     : log \in Logs, q \in Inputs}
     \/ probe \in {[fn |-> "updateAgentMsg",
                      input |-> [messages |-> log, id |-> id, updates |-> us],
                      applied |-> FALSE, result |-> <<>>]
                     : log \in MergeLogs, id \in MergeIds, us \in MergeSequences}
     \/ probe \in {[fn |-> "getValidProduct", input |-> v, applied |-> FALSE,
                      result |-> ProductUndefined]
                     : v \in ProductInputs}
     \/ probe \in {[fn |-> "planSteps", input |-> d, applied |-> FALSE,
                      result |-> [planStepCount |-> 0, planSteps |-> <<>>]]
                     : d \in StepPayloads}

\* Lines 438-439 applied to the decoded body.
ApplyAnimationTime ==
  /\ probe.fn = "animationTime"
  /\ ~probe.applied
  /\ probe' = [probe EXCEPT !.applied = TRUE, !.result = animationTime(probe.input)]
  /\ UNCHANGED <<mounted, messages, inputValue, isProcessing, currentProcessLog,
                 userProfile, showResults, timers, calls, reads, now, jitter, nreads>>

\* Lines 383-398 applied to the log of the closure and the prompt.
ApplyFinalPromptToSend ==
  /\ probe.fn = "finalPromptToSend"
  /\ ~probe.applied
  /\ probe' = [probe EXCEPT !.applied = TRUE,
                            !.result = finalPromptToSend(probe.input.messages,
                                                         probe.input.prompt)]
  /\ UNCHANGED <<mounted, messages, inputValue, isProcessing, currentProcessLog,
                 userProfile, showResults, timers, calls, reads, now, jitter, nreads>>

\* Lines 338-344: the next merge of the sequence is applied to the log the
\* previous one left; probe.result holds the log after each merge.
ApplyUpdateAgentMsg ==
  /\ probe.fn = "updateAgentMsg"
  /\ Len(probe.result) < Len(probe.input.updates)
  /\ LET j == Len(probe.result) + 1
         prev == IF j = 1 THEN probe.input.messages ELSE probe.result[j - 1]
     IN probe' = [probe EXCEPT
                    !.applied = TRUE,
                    !.result = Append(@, updateAgentMsg(prev, probe.input.id,
                                                        probe.input.updates[j]))]
  /\ UNCHANGED <<mounted, messages, inputValue, isProcessing, currentProcessLog,
                 userProfile, showResults, timers, calls, reads, now, jitter, nreads>>

\* Line 131: getValidProduct applied to data.product_json.
ApplyGetValidProduct ==
  /\ probe.fn = "getValidProduct"
  /\ ~probe.applied
  /\ probe' = [probe EXCEPT !.applied = TRUE, !.result = getValidProduct(probe.input)]
  /\ UNCHANGED <<mounted, messages, inputValue, isProcessing, currentProcessLog,
                 userProfile, showResults, timers, calls, reads, now, jitter, nreads>>

\* Line 438 and lines 133-135 applied to the same decoded body.
ApplyPlanSteps ==
  /\ probe.fn = "planSteps"
  /\ ~probe.applied
  /\ probe' = [probe EXCEPT
                 !.applied = TRUE,
                 !.result = [planStepCount |-> planStepCount(probe.input),
                             planSteps |-> planSteps(probe.input)]]
  /\ UNCHANGED <<mounted, messages, inputValue, isProcessing, currentProcessLog,
                 userProfile, showResults, timers, calls, reads, now, jitter, nreads>>

PureNext ==
  \/ ApplyAnimationTime
  \/ ApplyFinalPromptToSend
  \/ ApplyUpdateAgentMsg
  \/ ApplyGetValidProduct
  \/ ApplyPlanSteps

PureSpec == PureInit /\ [][PureNext]_vars

TypeOK ==
  /\ mounted \in BOOLEAN
  /\ isProcessing \in BOOLEAN
  /\ Len(calls) <= MaxTurns
  /\ DOMAIN showResults = 1..Len(messages)

\* ---------------------------------------------------------------------
\* Properties
\* ---------------------------------------------------------------------
\* The calls whose fetch has neither resolved nor rejected.
Outstanding == {c \in 1..Len(calls) : calls[c].state = "pending"}
\* The submissions that appended a pair to the log.
Accepted == {c \in 1..Len(calls) : calls[c].turn # 0}

\* C1: at most one backend call is outstanding at any time (a submission
\* that arrives while isProcessing is held issues no call).
C1_AtMostOneOutstanding == Cardinality(Outstanding) <= 1

\* C2: after N accepted submissions the log has exactly 2N entries, user and
\* agent alternating in submission order, each user turn directly followed
\* by its agent turn; no step removes, moves or retypes an entry.
C2_PairsInOrder ==
  /\ Len(messages) = 2 * Cardinality(Accepted)
  /\ \A c \in Accepted :
       /\ calls[c].turn = 2 * c
       /\ messages[2 * c - 1].type = "user"
       /\ messages[2 * c].type = "agent"
       /\ messages[2 * c - 1].id = calls[c].agentMsgId - 1
       /\ messages[2 * c].id = calls[c].agentMsgId

C2_AppendOnly ==
  /\ Len(messages') >= Len(messages)
  /\ \A i \in 1..Len(messages) :
       /\ messages'[i].id = messages[i].id
       /\ messages'[i].type = messages[i].type
       /\ messages'[i].content = messages[i].content

C2_LogAlternates == [](C2_PairsInOrder) /\ [][C2_AppendOnly]_vars

\* Two submissions were accepted while the first call was still outstanding.
C2_Witness ==
  /\ Len(messages) = 4
  /\ Cardinality(Outstanding) = 2

\* C3: every accepted submission performs exactly one release of the lock,
\* on the failure path as on the success path: never two, and, calls
\* completing and timers firing, eventually one; a held lock is
\* eventually free again.
C3_LockNeverLeaked ==
  /\ [](\A c \in 1..Len(calls) : calls[c].releases <= 1)
  /\ \A c \in 1..MaxTurns :
       (Len(calls) >= c) ~> (Len(calls) >= c /\ calls[c].releases = 1)
  /\ (isProcessing ~> ~isProcessing)

\* One call released the lock from its timer, another from its catch block.
C3_Witness ==
  /\ ~isProcessing
  /\ \E c \in 1..Len(calls) : calls[c].state = "ok" /\ calls[c].releases = 1
  /\ \E c \in 1..Len(calls) : calls[c].state = "failed" /\ calls[c].releases = 1

\* C4: a call that has completed has merged exactly once into its turn,
\* whatever the decoded body; a call still outstanding has not merged.
C4_ExactlyOneMerge ==
  \A c \in 1..Len(calls) :
    calls[c].merges = (IF calls[c].state = "pending" THEN 0 ELSE 1)

\* The step in which the call c fails: fetch rejected or status not 2xx.
FailureStep(c) == calls[c].state = "pending" /\ calls'[c].state = "failed"

Contains(seq, token) == \E i \in 1..Len(seq) : seq[i] = token

\* C5: the step in which a call fails merges the fallback payload into its
\* agent turn (CAUTION, a reasoning embedding the failure detail, subject
\* null), releases the lock and the indicator, and schedules no timer of
\* the dispatcher.
C5_FailureStep ==
  \A c \in 1..Len(calls) :
    (mounted /\ FailureStep(c)) =>
       LET payload == messages'[calls[c].turn].agentResponse IN
       /\ Get(payload, "final_verdict") = JString(<<"CAUTION">>)
       /\ Get(payload, "product_json") = JNull
       /\ Get(payload, "reasoning").kind = "string"
       /\ \E f \in Failures :
            /\ Contains(Get(payload, "reasoning").text, f.text[1])
            /\ f.kind = "status" => Contains(Get(payload, "reasoning").text, f.status[1])
       /\ ~isProcessing'
       /\ currentProcessLog' = <<>>
       /\ \A k \in 1..Len(timers') :
            timers'[k].kind = "reveal" =>
              \E j \in 1..Len(timers) : timers[j] = timers'[k]

C5_FailureReleasesAtOnce == [][C5_FailureStep]_vars

\* A call has failed: its turn carries the fallback and the lock is free.
C5_Witness ==
  /\ mounted
  /\ ~isProcessing
  /\ \E c \in 1..Len(calls) :
       /\ calls[c].state = "failed"
       /\ Get(messages[calls[c].turn].agentResponse, "final_verdict")
            = JString(<<"CAUTION">>)
       /\ Get(messages[calls[c].turn].agentResponse, "product_json") = JNull

\* C6 as stated: the step in which a call fails takes its turn to the
\* Results phase (showResults = true), no timer expiry being needed.
C6_FailureRevealsAtOnce ==
  [][\A c \in 1..Len(calls) :
       (mounted /\ FailureStep(c)) => showResults'[calls[c].turn]]_vars

\* A timer of the view at index i is pending in the timer list tms.
ViewTimerPending(tms, i) ==
  \E k \in 1..Len(tms) : tms[k].kind = "view" /\ tms[k].idx = i

\* C6 amended: the step in which a call fails merges the verdict and
\* releases the lock but changes no turn's phase; it leaves a turn that is
\* not revealed with the view's timer pending, due within 1500 ms, whose
\* expiry is what shows the verdict.
C6_FailureStep ==
  \A c \in 1..Len(calls) :
    (mounted /\ FailureStep(c)) =>
       /\ \A i \in 1..Len(messages) : showResults'[i] = showResults[i]
       /\ ~isProcessing'
       /\ \/ showResults'[calls[c].turn]
          \/ \E k \in 1..Len(timers') :
               /\ timers'[k].kind = "view"
               /\ timers'[k].idx = calls[c].turn
               /\ timers'[k].due <= now + ViewRevealMs

C6_FailureArmsViewTimer == [][C6_FailureStep]_vars

\* A call has failed, the lock is free, the turn is still in Thinking with
\* the view's timer pending.
C6_Witness ==
  /\ mounted
  /\ ~isProcessing
  /\ \E c \in 1..Len(calls) :
       /\ calls[c].state = "failed"
       /\ ~showResults[calls[c].turn]
       /\ ViewTimerPending(timers, calls[c].turn)

\* The step in which the reveal timer of the successful call c expires.
RevealStep(c) == calls[c].state = "ok" /\ calls'[c].releases = calls[c].releases + 1

\* C7 as stated: the expiry of the reveal delay clears the indicator and
\* takes the turn to the Results phase in the same step.
C7_RevealWithRelease ==
  [][\A c \in 1..Len(calls) :
       (mounted /\ RevealStep(c)) => showResults'[calls[c].turn]]_vars

\* C7 amended: the turn's reveal timer expires no earlier than the reveal
\* delay (3000..8000 ms) after the call completed and clears isProcessing
\* and the process log, leaving every turn's phase as it is; a turn's
\* phase changes in another step, one taken while isProcessing is false
\* and the turn has a final verdict.
C7_RevealStep ==
  /\ \A c \in 1..Len(calls) :
       RevealStep(c) =>
         /\ calls[c].delay \in 3000..8000
         /\ now >= calls[c].settledAt + calls[c].delay
         /\ mounted =>
              /\ ~isProcessing'
              /\ currentProcessLog' = <<>>
              /\ \A i \in 1..Len(messages) : showResults'[i] = showResults[i]
  /\ \A i \in 1..Len(messages) :
       (~showResults[i] /\ showResults'[i]) =>
         /\ ~isProcessing
         /\ ~isProcessing'
         /\ Truthy(Get(messages[i].agentResponse, "final_verdict"))
         /\ \A c \in 1..Len(calls) : calls'[c].releases = calls[c].releases

C7_ReleaseThenReveal == [][C7_RevealStep]_vars

\* The reveal timer of a successful call has expired after its delay, the
\* lock is free and the turn is still in the Thinking phase.
C7_Witness ==
  /\ mounted
  /\ ~isProcessing
  /\ \E c \in 1..Len(calls) :
       /\ calls[c].state = "ok"
       /\ calls[c].releases = 1
       /\ now >= calls[c].settledAt + calls[c].delay
       /\ Truthy(Get(messages[calls[c].turn].agentResponse, "final_verdict"))
       /\ ~showResults[calls[c].turn]

\* The occurrences of ". " in the text s (they cannot overlap).
SeparatorCount(s) ==
  Cardinality({i \in 1..Len(s) : i < Len(s) /\ s[i] = "." /\ s[i + 1] = " "})

\* C8: the reveal delay is clamp(planStepCount * 1000, 3000, 8000), with
\* planStepCount the number of plan steps capped at 5, or 3 without a plan:
\* always within [3000, 8000]; 3000 for 2 steps, 5000 for 10, 3000 for none.
C8_RevealDelay ==
  (probe.fn = "animationTime" /\ probe.applied) =>
    LET plan == Get(probe.input, "plan")
        hasPlan == plan.kind = "string" /\ plan.text # <<>>
        steps == IF hasPlan THEN SeparatorCount(plan.text) + 1 ELSE 3
        capped == IF steps > 5 THEN 5 ELSE steps
        ms == capped * 1000
        clamped == IF ms < 3000 THEN 3000 ELSE IF ms > 8000 THEN 8000 ELSE ms
    IN /\ probe.result = clamped
       /\ probe.result >= 3000
       /\ probe.result <= 8000
       /\ plan = JString(PlanTwoSteps) => probe.result = 3000
       /\ plan = JString(PlanTenSteps) => probe.result = 5000
       /\ ~hasPlan => probe.result = 3000

\* The delay of the ten-step plan has been computed.
C8_Witness ==
  /\ probe.fn = "animationTime"
  /\ probe.applied
  /\ Get(probe.input, "plan") = JString(PlanTenSteps)
  /\ probe.result = 5000

\* C9: every agent turn whose call has completed, with whatever payload or
\* by failing, eventually reaches the Results phase (as long as the
\* component is mounted).
C9_ResolvedTurnRevealed ==
  \A c \in 1..MaxTurns :
    (Len(calls) >= c /\ calls[c].turn # 0 /\ calls[c].state # "pending")
      ~> (\/ ~mounted
          \/ Len(calls) >= c /\ calls[c].turn # 0 /\ showResults[calls[c].turn])

\* C10: the lock is held whenever a call is outstanding, and the expiry of
\* an earlier turn's reveal timer does not clear it while a later turn's
\* call is outstanding.
C10_StaleTimerInert ==
  /\ []((mounted /\ Outstanding # {}) => isProcessing)
  /\ [][\A c \in 1..Len(calls) :
          (mounted /\ RevealStep(c) /\ \E d \in Outstanding : d > c)
            => isProcessing']_vars

\* C11: the step that tears the component down cancels every pending timer,
\* the dispatcher's reveal timer and the views' timers alike, so that no
\* timer expires afterwards.
C11_TeardownCancelsTimers == [][(mounted /\ ~mounted') => timers' = <<>>]_vars

\* C12: no step takes a revealed turn back to the Thinking phase, and no
\* step sets the pending flag of a turn again once a merge has cleared it.
C12_RevealStep ==
  \A i \in 1..Len(messages) :
    /\ i <= Len(messages')
    /\ showResults[i] => showResults'[i]
    /\ messages[i].isStreaming = "false" => messages'[i].isStreaming = "false"

C12_RevealOneWay == [][C12_RevealStep]_vars

\* A turn that was revealed before the second submission was made (the
\* submission came after its view's timer was due) is still revealed and
\* merged after that submission, the merge of its answer and the expiry of
\* its timers.
C12_Witness ==
  /\ Len(calls) = 2 /\ calls[1].turn = 2 /\ calls[2].turn = 4
  /\ calls[2].agentMsgId - 1 > (calls[1].settledAt + calls[1].delay) + ViewRevealMs
  /\ calls[2].state # "pending"
  /\ mounted /\ timers = <<>>
  /\ showResults[2] /\ messages[2].isStreaming = "false"

\* The digest lines of the last j turns of the log, oldest first.
RECURSIVE C13_LastLines(_, _)
C13_LastLines(log, j) ==
  IF j = 0 THEN <<>>
  ELSE LET m == log[Len(log) - j + 1]
           verdict == Get(m.agentResponse, "final_verdict")
       IN (IF m.type = "user"
           THEN <<"User: ">> \o m.content
           ELSE <<"AI Verdict: ">>
                \o (IF verdict.kind = "string" /\ verdict.text # <<>>
                    THEN verdict.text ELSE <<"Unknown">>))
          \o <<"\n">> \o C13_LastLines(log, j - 1)

\* C13: for an empty log the outgoing query is the query text alone;
\* otherwise it is the header, one line for each of the last min(6, length)
\* turns in log order ("User: <content>" or "AI Verdict: <verdict or
\* Unknown>"), the current-question marker, then the query text.
C13_MemoryDigest ==
  (probe.fn = "finalPromptToSend" /\ probe.applied) =>
    LET log == probe.input.messages
        k == IF Len(log) < 6 THEN Len(log) ELSE 6
    IN /\ Len(log) = 0 => probe.result = probe.input.prompt
       /\ Len(log) > 0 =>
            probe.result =
              <<"PREVIOUS CONVERSATION CONTEXT:\n">> \o C13_LastLines(log, k)
              \o <<"\nCURRENT QUESTION:\n">> \o probe.input.prompt

\* The digest of a log of more than six turns whose last six hold a turn
\* without a verdict has been built.
C13_Witness ==
  /\ probe.fn = "finalPromptToSend"
  /\ probe.applied
  /\ Len(probe.input.messages) > 6
  /\ \E j \in 3..Len(probe.input.messages) :
       /\ probe.input.messages[j].type = "agent"
       /\ "final_verdict" \notin DOMAIN probe.input.messages[j].agentResponse
  /\ Contains(probe.result, "Unknown")

\* The call with frame c gets its 2xx response in this step.
SuccessStep(c) == calls[c].state = "pending" /\ calls'[c].state \in {"ok", "threw"}

\* C14: the profile starts as the empty profile; a step in which a call
\* gets a successful response carrying a profile replaces it by that
\* profile; every other step (a failure, a success without a profile, a
\* rejected submission, a timer expiry, any user event) leaves it unchanged.
C14_ProfileStep ==
  IF \E c \in 1..Len(calls) :
       /\ mounted /\ calls[c].turn # 0 /\ SuccessStep(c)
       /\ Truthy(Get(messages'[calls[c].turn].agentResponse, "user_profile"))
  THEN \A c \in 1..Len(calls) :
         (calls[c].turn # 0 /\ SuccessStep(c))
           => userProfile' = Get(messages'[calls[c].turn].agentResponse, "user_profile")
  ELSE userProfile' = userProfile

C14_ProfileFrame ==
  /\ (calls = <<>> => userProfile = DEFAULT_PROFILE)
  /\ [][C14_ProfileStep]_vars

\* A profile received with the first answer has survived the second call,
\* which failed, and the expiry of every timer.
C14_Witness ==
  /\ mounted
  /\ Len(calls) = 2 /\ calls[1].state = "ok" /\ calls[2].state = "failed"
  /\ calls[1].settledAt < calls[2].settledAt
  /\ timers = <<>>
  /\ userProfile = ProfileNuts

\* C15: every submission, from whichever entry point, sends the profile
\* that is current at the moment of the submission.
C15_SubmissionStep ==
  (mounted /\ Len(calls') = Len(calls) + 1)
    => calls'[Len(calls')].user_profile = userProfile

C15_ProfileSentIsCurrent == [][C15_SubmissionStep]_vars

\* The log the j-th merge of the sequence was applied to.
MergeBefore(j) == IF j = 1 THEN probe.input.messages ELSE probe.result[j - 1]

\* C16: a merge is field-wise.  In every turn with the addressed id each
\* payload field the update names takes the update's value, each other
\* payload field keeps its value, and the pending flag is cleared; a
\* verdict merged before a reasoning is still there after it; the same
\* merge applied a second time changes nothing.
C16_MergeFieldwise ==
  (probe.fn = "updateAgentMsg" /\ probe.applied) =>
    \A j \in 1..Len(probe.result) :
      LET before == MergeBefore(j)
          after == probe.result[j]
          u == probe.input.updates[j]
      IN /\ Len(after) = Len(before)
         /\ \A i \in 1..Len(before) :
              before[i].id = probe.input.id =>
                /\ DOMAIN after[i].agentResponse
                     = DOMAIN before[i].agentResponse \cup DOMAIN u
                /\ \A key \in DOMAIN u : after[i].agentResponse[key] = u[key]
                /\ \A key \in DOMAIN before[i].agentResponse \ DOMAIN u :
                     after[i].agentResponse[key] = before[i].agentResponse[key]
                /\ after[i].isStreaming = "false"
                /\ after[i].id = before[i].id
                /\ after[i].type = before[i].type
                /\ after[i].content = before[i].content
                /\ after[i].timestamp = before[i].timestamp
                /\ (j > 1 /\ "final_verdict" \in DOMAIN probe.input.updates[j - 1]
                          /\ DOMAIN u = {"reasoning"})
                     => /\ after[i].agentResponse.final_verdict
                            = probe.input.updates[j - 1].final_verdict
                        /\ after[i].agentResponse.reasoning = u.reasoning
         /\ (j > 1 /\ u = probe.input.updates[j - 1]) => after = before

\* A verdict and then a reasoning have been merged into an agent turn that
\* was pending and held a query.
C16_Witness ==
  /\ probe.fn = "updateAgentMsg"
  /\ Len(probe.result) = 2
  /\ DOMAIN probe.input.updates[1] = {"final_verdict"}
  /\ DOMAIN probe.input.updates[2] = {"reasoning"}
  /\ \E i \in 1..Len(probe.input.messages) :
       /\ probe.input.messages[i].id = probe.input.id
       /\ probe.input.messages[i].type = "agent"
       /\ probe.input.messages[i].isStreaming = "true"
       /\ DOMAIN probe.result[2][i].agentResponse
            = {"user_query", "image_data", "final_verdict", "reasoning"}

\* C17: a merge addressed to an id that no turn of the log has leaves the
\* log as it was, turn for turn, and with it the profile and the lock; it
\* computes a log for every input, so nothing is raised.
C17_UnknownIdNoOp ==
  (/\ probe.fn = "updateAgentMsg"
   /\ probe.applied
   /\ \A i \in 1..Len(probe.input.messages) :
        probe.input.messages[i].id # probe.input.id) =>
    /\ \A j \in 1..Len(probe.result) : probe.result[j] = probe.input.messages
    /\ userProfile = DEFAULT_PROFILE
    /\ ~isProcessing

\* Two merges have been addressed to an id that none of the four turns of
\* the log has.
C17_Witness ==
  /\ probe.fn = "updateAgentMsg"
  /\ Len(probe.result) = 2
  /\ Len(probe.input.messages) = 4
  /\ \A i \in 1..4 : probe.input.messages[i].id # probe.input.id
  /\ probe.result[2] = probe.input.messages

\* Every user turn is as it was created: no agent payload, no pending flag.
C18_UserTurnsUntouched ==
  \A i \in 1..Len(messages) :
    messages[i].type = "user" =>
      /\ ~messages[i].hasAgentResponse
      /\ messages[i].isStreaming = "undefined"

\* The step in which a call merges its answer or its fallback changes no
\* turn but the agent turn that call's submission created.
C18_MergeStep ==
  \A c \in 1..Len(calls) :
    (mounted /\ calls[c].turn # 0 /\ calls[c].state = "pending"
            /\ calls'[c].state # "pending")
      => \A i \in 1..Len(messages) :
           i # calls[c].turn => messages'[i] = messages[i]

\* C18: user turns are never written after their creation, and a call's
\* merge writes only the agent turn of its own submission.
C18_MergeWritesOwnTurn == [](C18_UserTurnsUntouched) /\ [][C18_MergeStep]_vars

\* C19: the ids of the turns of the log are pairwise distinct.
C19_IdsUnique ==
  \A i, j \in 1..Len(messages) : i # j => messages[i].id # messages[j].id

\* An element that can be the subject: an object that is not an array and
\* has a nutrition-facts mapping or an ingredient list; a field that is
\* missing or null does not count.
C20_Qualifies(item) ==
  /\ item.kind = "object"
  /\ \E key \in {"NutritionFacts", "IngredientList"} :
       Get(item.fields, key).kind \in {"object", "array"}

\* C20: no subject for an absent product_json; a single object as it is;
\* for an array the first element that qualifies, and no subject when none
\* does.
C20_SubjectSelection ==
  (probe.fn = "getValidProduct" /\ probe.applied) =>
    LET input == probe.input
        n == Len(input.items)
    IN /\ input.kind \in {"undefined", "null"} => probe.result = ProductNull
       /\ input.kind = "object" => probe.result = input
       /\ input.kind = "array" =>
            /\ (\A i \in 1..n : ~C20_Qualifies(input.items[i]))
                 => probe.result = ProductNull
            /\ \A i \in 1..n :
                 (/\ C20_Qualifies(input.items[i])
                  /\ \A j \in 1..(i - 1) : ~C20_Qualifies(input.items[j]))
                   => probe.result = input.items[i]

\* C21: the agent turn of a submission made with an image holds that image
\* in its payload from the creation of the pair onward, whatever is merged
\* into it; at creation the payload also holds the query as it was typed or
\* chosen, without the memory digest.
C21_AttachmentKept ==
  \A c \in 1..Len(calls) :
    (calls[c].turn # 0 /\ Truthy(calls[c].imageData)) =>
      /\ Get(messages[calls[c].turn].agentResponse, "image_data") = calls[c].imageData
      /\ messages[calls[c].turn].isStreaming = "true"
           => Get(messages[calls[c].turn].agentResponse, "user_query")
                = JString(AnalyzePrompt)

\* C22: a turn whose own call has not returned is not in the Results phase
\* and has no timer pending that would take it there; a turn in the
\* Results phase has its pending flag cleared and a final verdict.
C22_NoResultsWhileUnresolved ==
  \A c \in 1..Len(calls) :
    calls[c].turn # 0 =>
      LET i == calls[c].turn
      IN /\ showResults[i] =>
              /\ calls[c].state # "pending"
              /\ messages[i].isStreaming = "false"
              /\ Truthy(Get(messages[i].agentResponse, "final_verdict"))
         /\ calls[c].state = "pending" =>
              \A k \in 1..Len(timers) :
                /\ timers[k].kind = "view" => timers[k].idx # i
                /\ timers[k].kind = "reveal" => timers[k].idx # c

\* C23: the query a submission sends is built from the log as it stands
\* when the submission appends its pair: the digest of the turns that
\* precede the new pair, then the text of the new user turn.
C23_SubmissionStep ==
  (mounted /\ Len(calls') = Len(calls) + 1) =>
    calls'[Len(calls')].user_query
      = finalPromptToSend(messages, messages'[Len(messages') - 1].content)

C23_DigestFromCurrentLog == [][C23_SubmissionStep]_vars

\* C24: for every plan text the step count the dispatcher derives the
\* reveal delay from is the number of steps the view displays.
C24_CountIsDisplayed ==
  (/\ probe.fn = "planSteps"
   /\ probe.applied
   /\ Get(probe.input, "plan").kind = "string"
   /\ Get(probe.input, "plan").text # <<>>) =>
    probe.result.planStepCount = Len(probe.result.planSteps)

====
